---- MODULE Spec2Model ----
(***************************************************************************)
(* Model of the paginated category loader DoubanPageClient                 *)
(* (src/src/app/douban/page.tsx): React state, the six effects of the      *)
(* component, the two selector handlers, the debounce and readiness        *)
(* timers, the IntersectionObserver and the fetches in flight.             *)
(*                                                                         *)
(* One action is one task of the browser's event loop (a timer callback,   *)
(* an observer callback, the continuation of an awaited fetch, a user      *)
(* interaction, a navigation).  The state updates a task queues are        *)
(* batched, the component is rendered again and the effects whose          *)
(* dependencies changed are run; updates queued by those effects cause a   *)
(* further render, until no dependency changes (operator Commit).          *)
(*                                                                         *)
(* String values stand for the source's literals:                          *)
(*   "hot" = '熱門', "all" = '全部', "" = ''.                                *)
(* A list of items is represented by a chunk: the pageStart of the request *)
(* that produced it and its length; doubanData is the sequence of chunks   *)
(* it was built from, in order.  An epoch runs from one reset of the page  *)
(* state to the next.  A fetch issued before the latest reset is stale:    *)
(* what it requested no longer influences what its response does to the    *)
(* component, so a stale fetch keeps only which function awaits it, and    *)
(* the items it delivers are kept as one chunk marked stale.               *)
(***************************************************************************)
EXTENDS Integers, Sequences, FiniteSets, Bags, TLC

VARIABLES
  type,               \* searchParams.get('type') || 'movie'
  primarySelection,
  secondarySelection,
  selectorsReady,
  loading,
  currentPage,
  hasMore,
  isLoadingMore,
  doubanData,
  debounceTimeoutRef, \* the pending timer debounceTimeoutRef.current refers to, else NoTimer
  timers,             \* the debounce timers that are pending, each by the request it issues
  mountTimer,         \* the 50 ms timer of the mount effect is pending
  typeTimer,          \* the 50 ms timer of the type effect is pending
  observerRef,        \* the connected IntersectionObserver: NoObserver or its closure
  loadingRef,         \* loadingRef.current is set
  inflight,           \* bag of the fetches awaiting their response
  mounted,            \* "no" before the first render, "yes", "gone" after unmount
  upstream,           \* what is known of the source behind getDoubanCategories
  pendingReset        \* history: the selection changed and the page state was not reset since

vars == <<type, primarySelection, secondarySelection, selectorsReady, loading,
          currentPage, hasMore, isLoadingMore, doubanData, debounceTimeoutRef,
          timers, mountTimer, typeTimer, observerRef, loadingRef, inflight,
          mounted, upstream, pendingReset>>

----------------------------------------------------------------------------
(* Bounds and input sets *)

PageLimit == 25
MaxPage == 1        \* the observer is not fired beyond this page
MaxInFlight == 2    \* fetches awaiting their response at one time
MaxData == 2        \* chunks in doubanData

Types == {"movie", "tv"}
PrimaryInputs == {"latest"}
SecondaryInputs == {"all"}
ListSizes == {0, 10, PageLimit}
Codes == {200, 500}

NoTimer == [none |-> TRUE]
NoObserver == [none |-> TRUE]

\* the source answers anything (NoUpstream), or it holds total items for
\* every selection and serves them in pages
NoUpstream == [known |-> FALSE, total |-> 0]
Upstream(total) == [known |-> TRUE, total |-> total]
Totals == {0, 10, PageLimit, PageLimit + 10, 2 * PageLimit}
MaxScroll == 3      \* scroll triggers against a known source stop at this page

----------------------------------------------------------------------------
(* Pure helpers *)

InitialPrimary(t) == IF t = "movie" THEN "hot" ELSE ""

InitialSecondary(t) ==
  IF t = "movie" THEN "all"
  ELSE IF t = "tv" THEN "tv"
  ELSE IF t = "show" THEN "show"
  ELSE "all"

\* mutant of getRequestParams: the branch of tv and show takes the category
\* from the primary selection
getRequestParams_PrimaryForTv(t, primary, secondary, pageStart) ==
  IF t = "tv" \/ t = "show"
  THEN [kind |-> "tv", category |-> primary, type |-> secondary,
        pageLimit |-> 25, pageStart |-> pageStart]
  ELSE [kind |-> t, category |-> primary, type |-> secondary,
        pageLimit |-> 25, pageStart |-> pageStart]

getRequestParams(t, primary, secondary, pageStart) ==
  IF t = "tv" \/ t = "show"
  THEN [kind |-> "tv", category |-> t, type |-> secondary,
        pageLimit |-> 25, pageStart |-> pageStart]
  ELSE [kind |-> t, category |-> primary, type |-> secondary,
        pageLimit |-> 25, pageStart |-> pageStart]

Params(w, pageStart) ==
  getRequestParams(w.type, w.primarySelection, w.secondarySelection, pageStart)

Fetch(by, req) == [by |-> by, req |-> req, stale |-> FALSE]

StaleReq ==
  [kind |-> "", category |-> "", type |-> "", pageLimit |-> 25, pageStart |-> 0]

Forget(f) == [f EXCEPT !.stale = TRUE, !.req = StaleReq]

Chunk(f, n) ==
  IF f.stale THEN [pageStart |-> 0, n |-> 0, stale |-> TRUE]
  ELSE [pageStart |-> f.req.pageStart, n |-> n, stale |-> FALSE]

\* data.list of a response with n items
List(f, n) == IF n = 0 THEN <<>> ELSE <<Chunk(f, n)>>

RECURSIVE SumCopies(_, _, _)
SumCopies(S, t, b) ==
  IF S = {} THEN 0
  ELSE LET f == CHOOSE x \in S : TRUE
       IN  (IF Forget(f) = t THEN CopiesIn(f, b) ELSE 0) + SumCopies(S \ {f}, t, b)

\* a reset starts an epoch: every fetch in flight belongs to an earlier one
MarkStale(b) ==
  LET T == {Forget(f) : f \in BagToSet(b)}
  IN  [t \in T |-> SumCopies(BagToSet(b), t, b)]

\* getDoubanCategories(req) is called
Issue(w, f) == [w EXCEPT !.inflight = @ (+) SetToBag({f})]

\* mutant of ClearDebounce: the timer is left pending
ClearDebounce_Noop(w) == w

\* clearTimeout(debounceTimeoutRef.current)
ClearDebounce(w) ==
  [w EXCEPT !.timers = @ \ {w.debounceTimeoutRef}, !.debounceTimeoutRef = NoTimer]

\* mutant of NextPage: the callback advances by two pages
NextPage_Skip(prev) == prev + 2

\* the updater of setCurrentPage in the observer callback
NextPage(prev) == prev + 1

----------------------------------------------------------------------------
(* The world a task works on: the variables as one record *)

World ==
  [type |-> type, primarySelection |-> primarySelection,
   secondarySelection |-> secondarySelection, selectorsReady |-> selectorsReady,
   loading |-> loading, currentPage |-> currentPage, hasMore |-> hasMore,
   isLoadingMore |-> isLoadingMore, doubanData |-> doubanData,
   debounceTimeoutRef |-> debounceTimeoutRef, timers |-> timers,
   mountTimer |-> mountTimer, typeTimer |-> typeTimer,
   observerRef |-> observerRef, loadingRef |-> loadingRef, inflight |-> inflight]

WorldNext ==
  [type |-> type', primarySelection |-> primarySelection',
   secondarySelection |-> secondarySelection', selectorsReady |-> selectorsReady',
   loading |-> loading', currentPage |-> currentPage', hasMore |-> hasMore',
   isLoadingMore |-> isLoadingMore', doubanData |-> doubanData',
   debounceTimeoutRef |-> debounceTimeoutRef', timers |-> timers',
   mountTimer |-> mountTimer', typeTimer |-> typeTimer',
   observerRef |-> observerRef', loadingRef |-> loadingRef', inflight |-> inflight']

----------------------------------------------------------------------------
(* The effects.  r is the render the effect closes over, w the world the   *)
(* effect's updates are queued on.                                         *)

\* useEffect(() => { setTimeout(() => setSelectorsReady(true), 50) }, [])
MountEffect(r, w) == [w EXCEPT !.mountTimer = TRUE]

\* useEffect(() => { setSelectorsReady(false); setLoading(true) }, [type])
TypeResetEffect(r, w) == [w EXCEPT !.selectorsReady = FALSE, !.loading = TRUE]

\* mutant of TypeSelectorsEffect: the timer that marks the selectors ready is missing
TypeSelectorsEffect_NoTimer(r, w) ==
  [w EXCEPT !.primarySelection = InitialPrimary(r.type),
            !.secondarySelection = InitialSecondary(r.type)]

\* useEffect(() => { set the selections of the type; setTimeout(ready, 50) }, [type])
TypeSelectorsEffect(r, w) ==
  [w EXCEPT !.primarySelection = InitialPrimary(r.type),
            !.secondarySelection = InitialSecondary(r.type),
            !.typeTimer = TRUE]

\* mutant of ResetEffect: setDoubanData([]) is missing
ResetEffect_KeepData(r, w) ==
  IF ~r.selectorsReady THEN w
  ELSE [ClearDebounce(w) EXCEPT !.currentPage = 0,
                                !.hasMore = TRUE,
                                !.isLoadingMore = FALSE,
                                !.timers = @ \cup {Params(r, 0)},
                                !.debounceTimeoutRef = Params(r, 0),
                                !.inflight = MarkStale(@)]

\* the reset / debounce effect
ResetEffect(r, w) ==
  IF ~r.selectorsReady THEN w
  ELSE [ClearDebounce(w) EXCEPT !.doubanData = <<>>,
                                !.currentPage = 0,
                                !.hasMore = TRUE,
                                !.isLoadingMore = FALSE,
                                !.timers = @ \cup {Params(r, 0)},
                                !.debounceTimeoutRef = Params(r, 0),
                                !.inflight = MarkStale(@)]

\* the currentPage effect: fetchMoreData up to its await
LoadMoreEffect(r, w) ==
  IF r.currentPage > 0
  THEN [Issue(w, Fetch("fetchMoreData", Params(r, r.currentPage * 25)))
          EXCEPT !.isLoadingMore = TRUE]
  ELSE w

\* the observer effect
ObserverEffect(r, w) ==
  IF ~r.hasMore \/ r.isLoadingMore \/ r.loading THEN w
  ELSE IF ~w.loadingRef THEN w
  ELSE [w EXCEPT !.observerRef =
          [hasMore |-> r.hasMore, isLoadingMore |-> r.isLoadingMore]]

TypeDeps(w) == w.type
ResetDeps(w) ==
  <<w.selectorsReady, w.type, w.primarySelection, w.secondarySelection>>
LoadMoreDeps(w) ==
  <<w.currentPage, w.type, w.primarySelection, w.secondarySelection>>
ObserverDeps(w) == <<w.hasMore, w.isLoadingMore, w.loading>>

\* the ref callback of the sentinel, which is rendered iff hasMore && !loading
\* (the element is taken to be laid out: el.offsetParent !== null)
AttachRef(r) == [r EXCEPT !.loadingRef = @ \/ (r.hasMore /\ ~r.loading)]

\* mutant of Cleanups: the reset effect returns no cleanup
Cleanups_KeepDebounce(p, r, w) ==
  LET w1 == IF TypeDeps(p) # TypeDeps(r) THEN [w EXCEPT !.typeTimer = FALSE] ELSE w
      w3 == IF ObserverDeps(p) # ObserverDeps(r)
            THEN [w1 EXCEPT !.observerRef = NoObserver] ELSE w1
  IN  w3

\* the cleanups of the effects whose dependencies changed
Cleanups(p, r, w) ==
  LET w1 == IF TypeDeps(p) # TypeDeps(r) THEN [w EXCEPT !.typeTimer = FALSE] ELSE w
      w2 == IF ResetDeps(p) # ResetDeps(r) THEN ClearDebounce(w1) ELSE w1
      w3 == IF ObserverDeps(p) # ObserverDeps(r)
            THEN [w2 EXCEPT !.observerRef = NoObserver] ELSE w2
  IN  w3

\* the bodies of the effects whose dependencies changed, in the order of declaration
Effects(p, r, w) ==
  LET w1 == IF TypeDeps(p) # TypeDeps(r) THEN TypeResetEffect(r, w) ELSE w
      w2 == IF TypeDeps(p) # TypeDeps(r) THEN TypeSelectorsEffect(r, w1) ELSE w1
      w3 == IF ResetDeps(p) # ResetDeps(r) THEN ResetEffect(r, w2) ELSE w2
      w4 == IF LoadMoreDeps(p) # LoadMoreDeps(r) THEN LoadMoreEffect(r, w3) ELSE w3
      w5 == IF ObserverDeps(p) # ObserverDeps(r) THEN ObserverEffect(r, w4) ELSE w4
  IN  w5

DepsChanged(p, r) ==
  \/ TypeDeps(p) # TypeDeps(r)
  \/ ResetDeps(p) # ResetDeps(r)
  \/ LoadMoreDeps(p) # LoadMoreDeps(r)
  \/ ObserverDeps(p) # ObserverDeps(r)

\* render r after the render p, run the cleanups and the effects, and render
\* again while an effect has changed a dependency
\* (p and a are bound as values, so that each render is evaluated once)
RECURSIVE Commit(_, _)
Commit(p0, r) ==
  CHOOSE w \in {IF ~DepsChanged(p, a) THEN a
                ELSE Commit(a, Effects(p, a, Cleanups(p, a, a)))
                  : p \in {p0}, a \in {AttachRef(r)}} : TRUE

\* the first render: every effect runs
FirstCommit(r) ==
  LET a  == AttachRef(r)
      w0 == MountEffect(a, a)
      w1 == TypeResetEffect(a, w0)
      w2 == TypeSelectorsEffect(a, w1)
      w3 == ResetEffect(a, w2)
      w4 == LoadMoreEffect(a, w3)
      w5 == ObserverEffect(a, w4)
  IN  Commit(a, w5)

----------------------------------------------------------------------------
(* Writing a world back to the variables *)

InResetState(w) == w.currentPage = 0 /\ w.doubanData = <<>>

Store(w) ==
  /\ type' = w.type
  /\ primarySelection' = w.primarySelection
  /\ secondarySelection' = w.secondarySelection
  /\ selectorsReady' = w.selectorsReady
  /\ loading' = w.loading
  /\ currentPage' = w.currentPage
  /\ hasMore' = w.hasMore
  /\ isLoadingMore' = w.isLoadingMore
  /\ doubanData' = w.doubanData
  /\ debounceTimeoutRef' = w.debounceTimeoutRef
  /\ timers' = w.timers
  /\ mountTimer' = w.mountTimer
  /\ typeTimer' = w.typeTimer
  /\ observerRef' = w.observerRef
  /\ loadingRef' = w.loadingRef
  /\ inflight' = w.inflight

\* a task whose updates end in the world w0; changed: it changed the selection
Task(w0, changed) ==
  \E w \in {w0} :
    /\ BagCardinality(w.inflight) <= MaxInFlight
    /\ Len(w.doubanData) <= MaxData
    /\ Store(w)
    /\ upstream' = upstream
    /\ pendingReset' = ((pendingReset \/ changed) /\ ~InResetState(w))

----------------------------------------------------------------------------
(* Initial state: the component before its first render *)

InitComponent ==
  /\ type \in Types
  /\ primarySelection = InitialPrimary(type)
  /\ secondarySelection = InitialSecondary(type)
  /\ selectorsReady = FALSE
  /\ loading = FALSE
  /\ currentPage = 0
  /\ hasMore = TRUE
  /\ isLoadingMore = FALSE
  /\ doubanData = <<>>
  /\ debounceTimeoutRef = NoTimer
  /\ timers = {}
  /\ mountTimer = FALSE
  /\ typeTimer = FALSE
  /\ observerRef = NoObserver
  /\ loadingRef = FALSE
  /\ inflight = EmptyBag
  /\ mounted = "no"
  /\ pendingReset = FALSE

Init == InitComponent /\ upstream = NoUpstream

----------------------------------------------------------------------------
(* Actions *)

Mount ==
  /\ mounted = "no"
  /\ mounted' = "yes"
  /\ Task(FirstCommit(World), FALSE)

\* setSelectorsReady(true) of the mount effect's timer
MountTimerFire ==
  /\ mounted = "yes"
  /\ mountTimer
  /\ UNCHANGED mounted
  /\ Task(Commit(World, [World EXCEPT !.mountTimer = FALSE, !.selectorsReady = TRUE]),
          FALSE)

\* setSelectorsReady(true) of the type effect's timer
TypeTimerFire ==
  /\ mounted = "yes"
  /\ typeTimer
  /\ UNCHANGED mounted
  /\ Task(Commit(World, [World EXCEPT !.typeTimer = FALSE, !.selectorsReady = TRUE]),
          FALSE)

\* the debounce timer t fires: loadInitialData up to its await
DebounceFireOf(t) ==
  /\ mounted = "yes"
  /\ t \in timers
  /\ UNCHANGED mounted
  /\ Task(Commit(World, [Issue(World, Fetch("loadInitialData", t))
                           EXCEPT !.timers = @ \ {t},
                                  !.debounceTimeoutRef = IF @ = t THEN NoTimer ELSE @,
                                  !.loading = TRUE]),
          FALSE)

DebounceFire == \E t \in timers : DebounceFireOf(t)

\* the IntersectionObserver callback
ObserverFireWith(isIntersecting) ==
  /\ mounted = "yes"
  /\ observerRef # NoObserver
  /\ currentPage < MaxPage
  /\ UNCHANGED mounted
  /\ Task(Commit(World,
                 IF isIntersecting /\ observerRef.hasMore /\ ~observerRef.isLoadingMore
                 THEN [World EXCEPT !.currentPage = NextPage(@)]
                 ELSE World),
          FALSE)

ObserverFire == \E isIntersecting \in BOOLEAN : ObserverFireWith(isIntersecting)

\* mutant of InitialResponse: hasMore as soon as the page is not empty
InitialResponse_NonEmpty(w, f, ok, n) ==
  IF ok
  THEN [w EXCEPT !.doubanData = List(f, n),
                 !.hasMore = (n > 0),
                 !.loading = FALSE]
  ELSE w

\* the state updates of loadInitialData after its await
InitialResponse(w, f, ok, n) ==
  IF ok
  THEN [w EXCEPT !.doubanData = List(f, n),
                 !.hasMore = (n = 25),
                 !.loading = FALSE]
  ELSE w

\* mutant of MoreResponse: setIsLoadingMore(false) on success only, not in finally
MoreResponse_NoFinally(w, f, ok, n) ==
  IF ok
  THEN [w EXCEPT !.doubanData = @ \o List(f, n),
                 !.hasMore = (n = 25),
                 !.isLoadingMore = FALSE]
  ELSE w

\* mutant of MoreResponse: setHasMore(data.list.length === 25) is missing
MoreResponse_KeepHasMore(w, f, ok, n) ==
  IF ok
  THEN [w EXCEPT !.doubanData = @ \o List(f, n),
                 !.isLoadingMore = FALSE]
  ELSE [w EXCEPT !.isLoadingMore = FALSE]

\* the state updates of fetchMoreData after its await
MoreResponse(w, f, ok, n) ==
  IF ok
  THEN [w EXCEPT !.doubanData = @ \o List(f, n),
                 !.hasMore = (n = 25),
                 !.isLoadingMore = FALSE]
  ELSE [w EXCEPT !.isLoadingMore = FALSE]

Response(w, f, ok, n) ==
  IF f.by = "loadInitialData" THEN InitialResponse(w, f, ok, n)
  ELSE MoreResponse(w, f, ok, n)

\* the continuation of the awaited fetch f: ok iff it resolved with code 200,
\* n the length of its list; an unmounted component ignores the updates
Settle(f, ok, n) ==
  /\ mounted # "no"
  /\ f \in BagToSet(inflight)
  /\ UNCHANGED mounted
  /\ LET w0 == [World EXCEPT !.inflight = @ (-) SetToBag({f})]
     IN  Task(Commit(World, IF mounted = "yes" THEN Response(w0, f, ok, n) ELSE w0),
              FALSE)

\* getDoubanCategories resolves with {code, list}
FetchResolve ==
  \E f \in BagToSet(inflight), code \in Codes, n \in ListSizes :
    /\ code # 200 => n = 0
    /\ Settle(f, code = 200, n)

\* getDoubanCategories rejects (a network error)
FetchReject == \E f \in BagToSet(inflight) : Settle(f, FALSE, 0)

\* mutant of handlePrimaryChangeOf: the test value !== primarySelection is missing
handlePrimaryChangeOf_Always(value) ==
  /\ mounted = "yes"
  /\ UNCHANGED mounted
  /\ Task(Commit(World, [World EXCEPT !.loading = TRUE, !.primarySelection = value]),
          value # primarySelection)

handlePrimaryChangeOf(value) ==
  /\ mounted = "yes"
  /\ UNCHANGED mounted
  /\ Task(Commit(World,
                 IF value # primarySelection
                 THEN [World EXCEPT !.loading = TRUE, !.primarySelection = value]
                 ELSE World),
          value # primarySelection)

handlePrimaryChange == \E value \in PrimaryInputs : handlePrimaryChangeOf(value)

handleSecondaryChangeOf(value) ==
  /\ mounted = "yes"
  /\ UNCHANGED mounted
  /\ Task(Commit(World,
                 IF value # secondarySelection
                 THEN [World EXCEPT !.loading = TRUE, !.secondarySelection = value]
                 ELSE World),
          value # secondarySelection)

handleSecondaryChange == \E value \in SecondaryInputs : handleSecondaryChangeOf(value)

\* navigation to another ?type=
TypeChange ==
  /\ mounted = "yes"
  /\ UNCHANGED mounted
  /\ \E t \in Types \ {type} : Task(Commit(World, [World EXCEPT !.type = t]), TRUE)

\* unmount: the cleanup of every effect
Unmount ==
  /\ mounted = "yes"
  /\ mounted' = "gone"
  /\ Task([ClearDebounce(World) EXCEPT !.mountTimer = FALSE, !.typeTimer = FALSE,
                                       !.observerRef = NoObserver],
          FALSE)

Next ==
  \/ Mount
  \/ MountTimerFire
  \/ TypeTimerFire
  \/ DebounceFire
  \/ ObserverFire
  \/ FetchResolve
  \/ FetchReject
  \/ handlePrimaryChange
  \/ handleSecondaryChange
  \/ TypeChange
  \/ Unmount

Spec == Init /\ [][Next]_vars

\* timers fire and fetches complete
Fair ==
  /\ WF_vars(MountTimerFire)
  /\ WF_vars(TypeTimerFire)
  /\ WF_vars(DebounceFire)
  /\ WF_vars(FetchResolve \/ FetchReject)

SpecFair == Spec /\ Fair

----------------------------------------------------------------------------
(* One epoch against a source that holds upstream.total items: the         *)
(* selection is not changed, every fetch succeeds, the sentinel keeps       *)
(* intersecting.                                                            *)

Min(a, b) == IF a < b THEN a ELSE b

\* the length of the list the source returns for pageStart
Served(pageStart) ==
  IF upstream.total > pageStart THEN Min(25, upstream.total - pageStart) ELSE 0

InitUpstream == InitComponent /\ \E total \in Totals : upstream = Upstream(total)

\* getDoubanCategories resolves with {code: 200, list: the page at pageStart}
UpstreamResolveOf(f) == Settle(f, TRUE, Served(f.req.pageStart))

UpstreamResolve == \E f \in BagToSet(inflight) : UpstreamResolveOf(f)

\* the IntersectionObserver callback with entries[0].isIntersecting
ScrollTrigger ==
  /\ mounted = "yes"
  /\ observerRef # NoObserver
  /\ currentPage < MaxScroll
  /\ UNCHANGED mounted
  /\ Task(Commit(World,
                 IF observerRef.hasMore /\ ~observerRef.isLoadingMore
                 THEN [World EXCEPT !.currentPage = NextPage(@)]
                 ELSE World),
          FALSE)

NextUpstream ==
  \/ Mount
  \/ MountTimerFire
  \/ TypeTimerFire
  \/ DebounceFire
  \/ ScrollTrigger
  \/ UpstreamResolve
  \/ Unmount

\* the page is rendered, timers fire, fetches complete, the user keeps scrolling
FairUpstream ==
  /\ WF_vars(Mount)
  /\ WF_vars(MountTimerFire)
  /\ WF_vars(TypeTimerFire)
  /\ WF_vars(DebounceFire)
  /\ WF_vars(ScrollTrigger)
  /\ WF_vars(UpstreamResolve)

SpecUpstream == InitUpstream /\ [][NextUpstream]_vars /\ FairUpstream

----------------------------------------------------------------------------
(* One epoch with the source answering anything: the selection is not      *)
(* changed, a fetch succeeds with a list of any length or fails.            *)

NextEpoch ==
  \/ Mount
  \/ MountTimerFire
  \/ TypeTimerFire
  \/ DebounceFire
  \/ ScrollTrigger
  \/ FetchResolve
  \/ FetchReject
  \/ Unmount

SpecEpoch == Init /\ [][NextEpoch]_vars

----------------------------------------------------------------------------
(* Properties *)

SelectionChanged ==
  \/ type' # type
  \/ primarySelection' # primarySelection
  \/ secondarySelection' # secondarySelection

\* the step called getDoubanCategories for f
NewlyIssued(f) ==
  /\ f \in BagToSet(inflight')
  /\ ~f.stale
  /\ CopiesIn(f, inflight') > CopiesIn(f, inflight)

FreshChunk(pageStart, n) == [pageStart |-> pageStart, n |-> n, stale |-> FALSE]

\* C1: after a change of the selection the page state (currentPage = 0,
\* doubanData empty) is reset before the page-0 fetch is issued, hence before
\* it resolves: no debounce timer fires while a reset is still owed.
C1_ResetBeforeInitialFetch ==
  [][(\E t \in timers : DebounceFireOf(t)) => ~pendingReset]_vars

\* the selection was changed, the page state is reset and the page-0 fetch of
\* the new selection is awaited
C1_Witness ==
  /\ type = "movie" /\ primarySelection = "latest"
  /\ ~pendingReset /\ currentPage = 0 /\ doubanData = <<>>
  /\ \E f \in BagToSet(inflight) :
       f.by = "loadInitialData" /\ ~f.stale /\ f.req.category = "latest"

\* C2: the response of a fetch of an earlier epoch changes neither the result
\* set nor hasMore.
C2_StaleResponseDiscarded ==
  [][\A f \in BagToSet(inflight), n \in ListSizes :
       (f.stale /\ mounted = "yes" /\ Settle(f, TRUE, n))
         => (doubanData' = doubanData /\ hasMore' = hasMore)]_vars

\* C3: a failed page-0 fetch leaves the result set unchanged and loading false.
C3_FailedInitialStopsLoading ==
  [][\A f \in BagToSet(inflight) :
       (f.by = "loadInitialData" /\ mounted = "yes" /\ Settle(f, FALSE, 0))
         => (doubanData' = doubanData /\ loading' = FALSE)]_vars

\* C4: a failed load-more fetch leaves doubanData, hasMore and currentPage
\* unchanged, sets isLoadingMore to false and issues no fetch.
C4_FailedLoadMore ==
  [][\A f \in BagToSet(inflight) :
       (f.by = "fetchMoreData" /\ mounted = "yes" /\ Settle(f, FALSE, 0))
         => /\ doubanData' = doubanData
            /\ hasMore' = hasMore
            /\ currentPage' = currentPage
            /\ isLoadingMore' = FALSE
            /\ inflight' = inflight (-) SetToBag({f})]_vars

\* the fetch of page 1 has failed: page 0 is all there is, nothing is awaited,
\* and the loader is idle with hasMore still true
C4_Witness ==
  /\ mounted = "yes" /\ selectorsReady
  /\ currentPage = 1 /\ ~isLoadingMore /\ hasMore
  /\ inflight = EmptyBag
  /\ doubanData = <<FreshChunk(0, 25)>>

\* C5: at most one debounce timer is pending and it carries the selection as it
\* is now (a change of the selection cancels the timer of the previous one);
\* a page-0 fetch is issued only by the firing of that timer, once, with the
\* current selection, and never by the change itself.
C5_Debounce ==
  [][/\ timers' \subseteq {Params(WorldNext, 0)}
     /\ \A f \in BagToSet(inflight') :
          (f.by = "loadInitialData" /\ NewlyIssued(f))
            => /\ f.req = Params(WorldNext, 0)
               /\ CopiesIn(f, inflight') = CopiesIn(f, inflight) + 1
               /\ ~SelectionChanged
               /\ timers = {f.req}
               /\ timers' = {}]_vars

\* two changes of the selection after the type's defaults, and the one page-0
\* fetch awaited is that of the last selection
C5_Witness ==
  /\ type = "tv" /\ primarySelection = "latest" /\ secondarySelection = "all"
  /\ timers = {}
  /\ inflight = SetToBag({Fetch("loadInitialData", Params(World, 0))})
  /\ doubanData = <<>> /\ loading

\* C6: an observer callback never issues a load-more fetch that is already
\* awaited for the same selection and pageStart.
C6_NoDuplicateLoadMore ==
  [][ObserverFireWith(TRUE)
       => CopiesIn(Fetch("fetchMoreData", Params(WorldNext, 25 * currentPage')),
                   inflight') <= 1]_vars

\* C7: after a successful response is applied, hasMore is true iff the list
\* has exactly 25 items.
C7_HasMoreIffFullPage ==
  [][\A f \in BagToSet(inflight), n \in ListSizes :
       (mounted = "yes" /\ Settle(f, TRUE, n)) => (hasMore' = (n = 25))]_vars

\* a full page 0 kept hasMore true, the short page 1 made it false
C7_Witness ==
  /\ mounted = "yes"
  /\ doubanData = <<FreshChunk(0, 25), FreshChunk(25, 10)>>
  /\ ~hasMore

\* C8: once a fetch of the current epoch has returned a short page, hasMore is
\* false for the rest of the epoch.
C8_ExhaustedStaysExhausted ==
  (/\ mounted = "yes" /\ selectorsReady
   /\ \E i \in 1..Len(doubanData) : ~doubanData[i].stale /\ doubanData[i].n < 25)
    => ~hasMore

\* C9: a load-more fetch is issued only by a step that increments currentPage
\* by one, with pageStart = 25 * currentPage.
C9_LoadMoreOnlyByIncrement ==
  [][\A f \in BagToSet(inflight') :
       (f.by = "fetchMoreData" /\ NewlyIssued(f))
         => (currentPage' = currentPage + 1 /\ f.req.pageStart = 25 * currentPage')]_vars

\* C10: currentPage starts at 0; a step changes it by +1, in an intersecting
\* observer callback, or to 0, in a step that changes the selection or in the
\* deferred reset when the selectors become ready after a change of type.
C10_PageCursorSteps ==
  /\ currentPage = 0
  /\ [][\/ currentPage' = currentPage
        \/ (currentPage' = currentPage + 1 /\ ObserverFireWith(TRUE))
        \/ (currentPage' = 0 /\ (SelectionChanged \/ (~selectorsReady /\ selectorsReady')))
       ]_vars

\* the observer has fired once
C10_Witness == mounted = "yes" /\ currentPage = 1 /\ isLoadingMore

AwaitedBy(by) == {f \in BagToSet(inflight) : f.by = by}

\* C11: the initial load and a load-more are never active together: loading
\* and isLoadingMore are never both true, and a page-0 fetch and a load-more
\* fetch are never awaited at the same time.
C11_LoadStatesExclusive ==
  mounted = "yes" =>
    /\ ~(loading /\ isLoadingMore)
    /\ (AwaitedBy("loadInitialData") = {} \/ AwaitedBy("fetchMoreData") = {})

\* an observer is connected only on a mounted component whose flags allow it
ObserverEligible ==
  observerRef # NoObserver
    => (mounted = "yes" /\ hasMore /\ ~loading /\ ~isLoadingMore)

\* the step is a scroll trigger that increments currentPage
ScrollIncrement == ObserverFireWith(TRUE) /\ currentPage' = currentPage + 1

\* C12: the observer is connected only while hasMore is true and neither
\* loading nor isLoadingMore is, and never after unmount; hence no scroll
\* trigger increments currentPage while a fetch is awaited or after unmount.
C12_ObserverScoped ==
  /\ []ObserverEligible
  /\ [][ScrollIncrement => (mounted = "yes" /\ inflight = EmptyBag)]_vars

\* the pending debounce timers are at most the one the ref refers to, and none
\* is pending on an unmounted component
OneTimer ==
  /\ Cardinality(timers) <= 1
  /\ timers \subseteq {debounceTimeoutRef}
  /\ mounted # "yes" => timers = {}

\* C13: at most one debounce timer is pending, the one scheduled last; it is
\* cancelled when the next is scheduled and on unmount, so a page-0 fetch is
\* issued only by the timer scheduled last, on a mounted component.
C13_OneDebounceTimer ==
  /\ []OneTimer
  /\ [][\A f \in BagToSet(inflight') :
          (f.by = "loadInitialData" /\ NewlyIssued(f))
            => (mounted = "yes" /\ debounceTimeoutRef = f.req /\ timers = {f.req})]_vars

\* the selection was changed before anything was fetched: the one timer
\* pending is that of the new selection
C13_Witness ==
  /\ mounted = "yes" /\ type = "movie" /\ primarySelection = "latest"
  /\ timers = {Params(World, 0)} /\ debounceTimeoutRef = Params(World, 0)
  /\ inflight = EmptyBag /\ doubanData = <<>>

\* the source holds a positive multiple of 25 items
MultipleOf25 ==
  upstream.known /\ upstream.total > 0 /\ upstream.total % 25 = 0

\* every item of the source once, in order: its full pages
AllItems == [i \in 1..(upstream.total \div 25) |-> FreshChunk(25 * (i - 1), 25)]

Exhausted == ~hasMore /\ doubanData = AllItems /\ inflight = EmptyBag

\* C14: against a source that holds a positive multiple of 25 items, with
\* every fetch succeeding and the sentinel intersecting again and again:
\* each page is fetched once, in order, and none beyond pageStart = total;
\* the fetch at pageStart = total returns no item and leaves hasMore false
\* and the result set holding every item once; and this is reached unless
\* the component unmounts first.
C14_OneExtraEmptyFetch ==
  /\ [][MultipleOf25 =>
          /\ currentPage' >= currentPage
          /\ \A f \in BagToSet(inflight') :
               NewlyIssued(f)
                 => /\ f.req.pageStart = 25 * currentPage'
                    /\ f.req.pageStart <= upstream.total
                    /\ CopiesIn(f, inflight') = 1
                    /\ (f.by = "fetchMoreData") = (currentPage' = currentPage + 1)
          /\ \A f \in BagToSet(inflight) :
               (mounted = "yes" /\ f.req.pageStart = upstream.total /\ UpstreamResolveOf(f))
                 => (Served(f.req.pageStart) = 0 /\ doubanData' = doubanData /\ Exhausted')
          /\ (mounted = "yes" /\ Exhausted) => Exhausted']_vars
  /\ (MultipleOf25 => <>(mounted = "gone" \/ Exhausted))

\* the source holds 50 items: pages 0 and 1 are in the result set, the fetch
\* of page 2 returned nothing
C14_Witness ==
  /\ mounted = "yes" /\ upstream = Upstream(50)
  /\ currentPage = 2 /\ Exhausted

IsPrefix(s, t) == Len(s) <= Len(t) /\ SubSeq(t, 1, Len(s)) = s

\* a step of a mounted component that stays within the epoch: the
\* dependencies of the reset effect are as before
EpochStep ==
  /\ mounted = "yes" /\ mounted' = "yes"
  /\ ~SelectionChanged
  /\ selectorsReady' = selectorsReady

\* a successful load-more response appends its list to the result set
AppendsList ==
  \A f \in BagToSet(inflight), n \in ListSizes :
    (f.by = "fetchMoreData" /\ mounted = "yes" /\ Settle(f, TRUE, n))
      => doubanData' = doubanData \o List(f, n)

\* C15: a successful load-more fetch appends the returned items after the
\* result set, and within one epoch the result set before a step is a prefix
\* of the result set after it.
C15_AppendOnly ==
  [][AppendsList /\ (EpochStep => IsPrefix(doubanData, doubanData'))]_vars

\* the fetches awaited for page 0 of the selection as it is now
InitialOfSelection ==
  {f \in AwaitedBy("loadInitialData") : ~f.stale /\ f.req = Params(World, 0)}

\* after mount, a change of type or a change of selection: the page-0 fetch
\* of the selection is still to be issued
InitialOwed == mounted = "yes" /\ (~selectorsReady \/ timers # {})

\* the response of a page-0 fetch of the current selection is applied
InitialLoaded ==
  \A f \in InitialOfSelection, n \in ListSizes :
    (mounted = "yes" /\ Settle(f, TRUE, n))
      => (~loading' /\ doubanData' = List(f, n))

\* a debounce timer that is no longer pending, with the selection and the
\* readiness as they were, has called loadInitialData for the selection
TimerIssues ==
  (timers # {} /\ timers' = {} /\ EpochStep) => InitialOfSelection' # {}

\* C16: with timers firing and fetches completing, unless the selection is
\* changed again and again: after mount or a change, the debounce timer of
\* the latest selection comes to fire, which issues the page-0 fetch of that
\* selection, and the fetch comes to settle; when it succeeds, loading is
\* false and the result set is exactly the list it returned.
C16_EventuallyLoaded ==
  /\ \/ []<><<SelectionChanged>>_vars
     \/ /\ []<>(mounted # "yes" \/ ~InitialOwed)
        /\ []<>(InitialOfSelection = {})
  /\ [][TimerIssues /\ InitialLoaded]_vars

\* the selection was changed and its page 0, a short page, is shown
C16_Witness ==
  /\ mounted = "yes" /\ type = "movie" /\ primarySelection = "latest"
  /\ selectorsReady /\ ~loading /\ ~hasMore
  /\ timers = {} /\ inflight = EmptyBag
  /\ doubanData = <<FreshChunk(0, 10)>>

\* the request has the shape required for the content type t with the
\* selections primary and secondary
Shaped(req, t, primary, secondary) ==
  /\ req.pageLimit = 25
  /\ req.pageStart >= 0 /\ req.pageStart % 25 = 0
  /\ req.type = secondary
  /\ t \in {"tv", "show"} => (req.kind = "tv" /\ req.category = t)
  /\ t = "movie" => (req.kind = "movie" /\ req.category = primary)

\* getRequestParams on every content type, selection and page
ParamsShaped ==
  \A t \in Types \cup {"show"}, k \in 0..MaxScroll,
     primary \in {InitialPrimary("movie"), InitialPrimary("tv")} \cup PrimaryInputs,
     secondary \in {InitialSecondary(u) : u \in Types \cup {"show"}} \cup SecondaryInputs :
    /\ Shaped(getRequestParams(t, primary, secondary, 25 * k), t, primary, secondary)
    /\ getRequestParams(t, primary, secondary, 25 * k).pageStart = 25 * k

\* C17: every request issued has pageLimit 25 and the shape of its content
\* type, built from the type and the selections of the render that issued it
\* (those before or after the step); pageStart is 0 for the initial load and
\* 25 * currentPage, of that render, for a load-more.
C17_RequestShape ==
  /\ []ParamsShaped
  /\ [][\A f \in BagToSet(inflight') :
          NewlyIssued(f)
            => /\ \E t \in {type, type'},
                     primary \in {primarySelection, primarySelection'},
                     secondary \in {secondarySelection, secondarySelection'} :
                    Shaped(f.req, t, primary, secondary)
               /\ f.by = "loadInitialData" => f.req.pageStart = 0
               /\ f.by = "fetchMoreData"
                    => (f.req.pageStart > 0
                        /\ f.req.pageStart \in {25 * currentPage, 25 * currentPage'})]_vars

\* page 1 of the tv listing is awaited
C17_Witness ==
  /\ mounted = "yes" /\ type = "tv" /\ currentPage = 1
  /\ inflight = SetToBag({Fetch("fetchMoreData",
                    [kind |-> "tv", category |-> "tv", type |-> secondarySelection,
                     pageLimit |-> 25, pageStart |-> 25])})

\* C18: the result set is the lists returned for pages 0..k of the current
\* selection, in page order with none missing: its i-th list is that of
\* pageStart 25 * (i - 1), also after a failed load-more and further scroll
\* triggers.
C18_NoGaps ==
  mounted = "yes" =>
    \A i \in 1..Len(doubanData) :
      ~doubanData[i].stale /\ doubanData[i].pageStart = 25 * (i - 1)

\* C19: a fetch is issued only while the selectors are ready, with the
\* content type and the selections that belong together: those the
\* component holds after the step.  In particular none is issued with a new
\* content type and the selections left over from the previous one.
C19_NoMixedRequest ==
  [][\A f \in BagToSet(inflight') :
       NewlyIssued(f)
         => (selectorsReady' /\ f.req = Params(WorldNext, f.req.pageStart))]_vars

\* C20: handlePrimaryChange and handleSecondaryChange called with the value
\* that is selected change nothing: loading, the selections, the result set,
\* currentPage and hasMore are as before, no timer is started and no fetch
\* is issued.
C20_SameValueNoOp ==
  [][(handlePrimaryChangeOf(primarySelection) \/ handleSecondaryChangeOf(secondarySelection))
       => UNCHANGED vars]_vars

\* the list of the selection chosen by the user is shown and nothing is
\* pending: choosing the same value again must not bring the skeleton back
C20_Witness ==
  /\ mounted = "yes" /\ selectorsReady /\ ~loading
  /\ primarySelection \in PrimaryInputs /\ secondarySelection \in SecondaryInputs
  /\ timers = {} /\ inflight = EmptyBag
  /\ doubanData # <<>>

====
